---------------------------- MODULE Spec2Model ----------------------------
(***************************************************************************)
(* A model of cht_hurrywave/hurrywave.py (class HurryWave).                *)
(*                                                                         *)
(* Five operations of the class are modelled, each under a specification   *)
(* of its own over the same variables:                                      *)
(*   SpecTiles  make_index_tiles                     (lines 433-559)       *)
(*   SpecMax    read_map_output_max, read_hm0max      (lines 228-329)       *)
(*   SpecWind   setup_wind_uniform_forcing            (lines 562-609)       *)
(*   SpecTs     read_timeseries_output                (lines 154-204)       *)
(*   SpecGrid   grid_coordinates                      (lines 378-401)       *)
(*                                                                         *)
(* Conventions.                                                            *)
(*  - Python's None (and an empty list, where the code tests truthiness)   *)
(*    is the empty sequence <<>>.                                          *)
(*  - Lengths are integers.  The Web-Mercator world is a square of side    *)
(*    World whose lower-left corner is (0, 0); the unit is chosen so that  *)
(*    half a pixel of the finest zoom level is 1.  The model's CRS is      *)
(*    taken to be Web-Mercator itself, so that transformer_b is the        *)
(*    identity map it really is in that case, and longitude/latitude       *)
(*    are replaced by the Mercator abscissa/ordinate they are monotone in. *)
(*  - rotation is a multiple of 90 degrees, for which cos and sin are      *)
(*    taken exact.                                                         *)
(***************************************************************************)
EXTENDS Integers, Sequences, FiniteSets, TLC

VARIABLES
    \* ---- make_index_tiles
    input,      \* self.input.variables: x0, y0, dx, dy, mmax, nmax, rotation
    mask,       \* self.grid.ds["mask"].values, indexed [j, i]
    args,       \* the call's arguments: zoom_range, z_range, dem_names
    scheme,     \* row numbering of cht_tiling's deg2num/num2deg: "xyz" | "tms"
    dirs,       \* directories that exist under (and including) path
    files,      \* tile files under path: <<zoom, i, j>> -> array
    pc,         \* position in make_index_tiles
    izoom, i, j, path_okay,   \* its loop variables
    ind,        \* the tile array being built
    visited,    \* tiles <<zoom, i, j>> whose loop body was entered
    mkdirs,     \* directories <<zoom, i>> passed to fo.mkdir, in order
    held,       \* the tile files path held when the call began
    \* ---- read_map_output_max, read_hm0max
    out,        \* the simulation's output on disk and the configuration it was run with
    maxcall,    \* the last call: function, time_range, file
    maxret,     \* what that call returned or raised
    opened,     \* the files that call opened
    \* ---- setup_wind_uniform_forcing
    wenv,       \* self.input.variables.tstart, tstop, tref and self.path
    wndfile,    \* the content of <path>/hurrywave.wnd (None: no such file)
    windcall,   \* the last call's arguments
    windret,    \* what that call returned or raised
    \* ---- read_timeseries_output
    his,        \* the content of hurrywave_his.nc
    tscall,     \* the last call's arguments
    tsret,      \* the table that call returned
    \* ---- grid_coordinates
    gridcall,   \* the last call's argument loc
    gridret     \* the pair of arrays xg, yg that call returned

tileVars == <<input, mask, args, scheme, dirs, files, pc, izoom, i, j, path_okay,
              ind, visited, mkdirs, held>>
maxVars == <<out, maxcall, maxret, opened>>
windVars == <<wenv, wndfile, windcall, windret>>
tsVars == <<his, tscall, tsret>>
gridVars == <<gridcall, gridret>>

vars == <<tileVars, maxVars, windVars, tsVars, gridVars>>

None == <<>>

\* The value of the variables of an operation that a specification leaves out.
Idle == [status |-> "idle"]
IdleTiles ==
    /\ input = Idle /\ mask = Idle /\ args = Idle /\ scheme = "idle"
    /\ dirs = {} /\ files = <<>> /\ pc = "idle"
    /\ izoom = 0 /\ i = 0 /\ j = 0 /\ path_okay = FALSE
    /\ ind = <<>> /\ visited = {} /\ mkdirs = <<>> /\ held = <<>>
IdleMax == out = Idle /\ maxcall = Idle /\ maxret = Idle /\ opened = {}
IdleWind == wenv = Idle /\ wndfile = None /\ windcall = Idle /\ windret = Idle
IdleTs == his = Idle /\ tscall = Idle /\ tsret = Idle
IdleGrid == gridcall = Idle /\ gridret = Idle

-----------------------------------------------------------------------------
(* Bounds of the model.                                                    *)

\* The deepest zoom level (the code's default is 13).
MaxZoom == 2
\* Pixels along a tile's side (the code's npix is 256).
npix == 2

RECURSIVE Pow2(_)
Pow2(k) == IF k <= 0 THEN 1 ELSE 2 * Pow2(k - 1)

\* The circumference 40075016.686 m, in model units.
World == 2 * npix * Pow2(MaxZoom)

NoData == -999

-----------------------------------------------------------------------------
(* Grid geometry.                                                          *)

CosDeg(r) == CASE r = 0 -> 1 [] r = 90 -> 0 [] r = 180 -> -1 [] r = 270 -> 0
SinDeg(r) == CASE r = 0 -> 0 [] r = 90 -> 1 [] r = 180 -> 0 [] r = 270 -> -1

\* grid_coordinates(loc='cor'): the corner (jj, ii) in world coordinates.
CornerX(v, ii, jj) == v.x0 + (ii * v.dx) * CosDeg(v.rotation) - (jj * v.dy) * SinDeg(v.rotation)
CornerY(v, ii, jj) == v.y0 + (ii * v.dx) * SinDeg(v.rotation) + (jj * v.dy) * CosDeg(v.rotation)

SetMin(S) == CHOOSE m \in S : \A n \in S : m <= n
SetMax(S) == CHOOSE m \in S : \A n \in S : m >= n

\* bounding_box: min and max over all corners.
XRange(v) ==
    LET S == {CornerX(v, ii, jj) : ii \in 0..v.mmax, jj \in 0..v.nmax}
    IN  <<SetMin(S), SetMax(S)>>
YRange(v) ==
    LET S == {CornerY(v, ii, jj) : ii \in 0..v.mmax, jj \in 0..v.nmax}
    IN  <<SetMin(S), SetMax(S)>>

-----------------------------------------------------------------------------
(* Tiling helpers of cht_tiling, as the specification describes them.      *)

NTiles(z) == Pow2(z)
TileSize(z) == World \div NTiles(z)

\* deg2num(lat, lon, zoom), on Mercator coordinates (Y, X).
Deg2NumX(X, z) == (X * NTiles(z)) \div World
Deg2NumY(Y, z) ==
    LET fromNorth == ((World - Y) * NTiles(z)) \div World
    IN  IF scheme = "xyz" THEN fromNorth ELSE (NTiles(z) - 1) - fromNorth

\* num2deg(i, j, zoom) followed by transformer_a: the corner of tile (i, j)
\* in Mercator coordinates.  "xyz" numbers rows from the north and gives the
\* upper-left corner; "tms" numbers rows from the south and gives the
\* lower-left corner.
Num2DegX(ti, z) == ti * TileSize(z)
Num2DegY(tj, z) ==
    IF scheme = "xyz" THEN World - tj * TileSize(z) ELSE tj * TileSize(z)

-----------------------------------------------------------------------------
(* make_index_tiles: pure parts.                                           *)

DefaultZoomRange == <<0, MaxZoom>>
ZoomRange(a) == IF a.zoom_range = None THEN DefaultZoomRange ELSE a.zoom_range

Dxy(z) == (World \div npix) \div Pow2(z)

Ix0(v, z) == Deg2NumX(XRange(v)[1], z)
Iy0(v, z) == Deg2NumY(YRange(v)[1], z)
Ix1(v, z) == Deg2NumX(XRange(v)[2], z)
Iy1(v, z) == Deg2NumY(YRange(v)[2], z)

Pixels == (0 .. npix - 1) \X (0 .. npix - 1)

\* Pixel <<r, c>> of tile (ti, tj): its sample point, xm and ym.
Xm(p, ti, z) == p[2] * Dxy(z) + Num2DegX(ti, z) + Dxy(z) \div 2
Ym(p, tj, z) == p[1] * Dxy(z) + Num2DegY(tj, z) + Dxy(z) \div 2

\* Rotation about the model's origin, by -rotation.
XgSameSense(v, x, y) == (x - v.x0) * CosDeg(v.rotation) - (y - v.y0) * SinDeg(v.rotation)
Xg(v, x, y) == (x - v.x0) * CosDeg(v.rotation) - (y - v.y0) * (-SinDeg(v.rotation))
Yg(v, x, y) == (x - v.x0) * (-SinDeg(v.rotation)) + (y - v.y0) * CosDeg(v.rotation)

Iind(v, x, y) == Xg(v, x, y) \div v.dx
Jind(v, x, y) == Yg(v, x, y) \div v.dy

\* ind = iind*nmax + jind, then the four range tests.
RangeInd(v, ii, jj) ==
    IF ii < 0 \/ jj < 0 \/ ii >= v.mmax \/ jj >= v.nmax
    THEN NoData
    ELSE ii * v.nmax + jj

\* get_bathy_on_tile: the elevation at a sample point (a fixed field).
Elevation(x, y) == x - y

\* ind[z<z_range[0]] = -999; ind[z>z_range[1]] = -999
ZFilter(a, val, x, y) ==
    IF a.z_range /= None
       /\ (Elevation(x, y) < a.z_range[1] \/ Elevation(x, y) > a.z_range[2])
    THEN NoData
    ELSE val

ArrayMax(arr) == SetMax({arr[p] : p \in DOMAIN arr})

MaskValue(m, jj, ii) == m[<<jj, ii>>]

\* A mask filter that takes out only the points with mask < 0.
MaskFilterBelowZero(v, m, arr, ti, tj, z) ==
    IF ArrayMax(arr) >= 0
    THEN [p \in DOMAIN arr |->
            IF arr[p] >= 0
               /\ MaskValue(m, Jind(v, Xm(p, ti, z), Ym(p, tj, z)),
                               Iind(v, Xm(p, ti, z), Ym(p, tj, z))) < 0
            THEN NoData
            ELSE arr[p]]
    ELSE arr

\* Lines 543-549: points with mask < 1 are taken out.
MaskFilter(v, m, arr, ti, tj, z) ==
    IF ArrayMax(arr) >= 0
    THEN [p \in DOMAIN arr |->
            IF arr[p] >= 0
               /\ MaskValue(m, Jind(v, Xm(p, ti, z), Ym(p, tj, z)),
                               Iind(v, Xm(p, ti, z), Ym(p, tj, z))) < 1
            THEN NoData
            ELSE arr[p]]
    ELSE arr

\* Lines 502-549: the array of tile (ti, tj) at zoom z.
TileInd(v, m, a, ti, tj, z) ==
    LET raw == [p \in Pixels |->
                  ZFilter(a,
                          RangeInd(v, Iind(v, Xm(p, ti, z), Ym(p, tj, z)),
                                      Jind(v, Xm(p, ti, z), Ym(p, tj, z))),
                          Xm(p, ti, z), Ym(p, tj, z))]
    IN  MaskFilter(v, m, raw, ti, tj, z)

\* A test that takes the sentinel for a valid index.
AnyAtLeastSentinel(arr) == \E p \in DOMAIN arr : arr[p] >= NoData

\* Line 551: np.any(ind>=0)
AnyValid(arr) == \E p \in DOMAIN arr : arr[p] >= 0

\* The directories fo.mkdir(zoom_path_i) creates: the path and its parents.
PathAndParents(z, ti) == {<<>>, <<z>>, <<z, ti>>}

-----------------------------------------------------------------------------
(* make_index_tiles: inputs.                                               *)

GridDims == {<<1, 1>>, <<2, 1>>, <<1, 2>>, <<2, 2>>}
Origins == {<<8, 8>>, <<7, 6>>}
CellSizes == {<<2, 2>>, <<3, 2>>}
Rotations == {0, 90, 180, 270}
MaskValues == {0, 1, 2}

Inputs ==
    {[x0 |-> o[1], y0 |-> o[2], dx |-> c[1], dy |-> c[2],
      mmax |-> d[1], nmax |-> d[2], rotation |-> r] :
        o \in Origins, c \in CellSizes, d \in GridDims, r \in Rotations}

Masks(v) ==
    LET cells == (0 .. v.nmax - 1) \X (0 .. v.mmax - 1)
    IN  {[c \in cells |-> IF c = off THEN 0 ELSE 1] : off \in cells}
        \cup {[c \in cells |-> val] : val \in MaskValues}

Args ==
    {[zoom_range |-> zr, z_range |-> None, dem_names |-> None] :
        zr \in {None, <<1, 2>>}}
    \cup {[zoom_range |-> None, z_range |-> <<-1, 1>>, dem_names |-> dn] :
        dn \in {None, <<"dem">>}}

\* What path may hold before the call: nothing, or the tiles of an earlier run.
OldArray == [p \in Pixels |-> 0]
OldKey == <<0, 0, 0>>
\* The calls that may find such a path: those that do not go through zoom
\* level 0 again, whose own tiles cannot be taken for the old one.
FindsPath(a) == a.zoom_range /= None \/ (a.z_range /= None /\ a.dem_names = None)

-----------------------------------------------------------------------------
(* make_index_tiles: the state machine.                                    *)

InitTiles ==
    /\ input \in Inputs
    /\ mask \in Masks(input)
    /\ args \in Args
    /\ scheme \in {"xyz", "tms"}
    /\ \E old \in (IF FindsPath(args) THEN BOOLEAN ELSE {FALSE}) :
         IF old
         THEN dirs = PathAndParents(0, 0) /\ files = (OldKey :> OldArray)
         ELSE dirs = {} /\ files = <<>>
    /\ pc = "start"
    /\ IdleMax /\ IdleWind /\ IdleTs /\ IdleGrid
    /\ izoom = 0 /\ i = 0 /\ j = 0 /\ path_okay = FALSE
    /\ ind = <<>>
    /\ visited = {}
    /\ mkdirs = <<>>
    /\ held = files

\* Begin without lines 459-462.
BeginKeepsPath ==
    /\ pc = "start"
    /\ UNCHANGED <<maxVars, windVars, tsVars, gridVars>>
    /\ IF args.z_range /= None /\ args.dem_names = None
       THEN pc' = "raised" /\ izoom' = izoom
       ELSE pc' = "zoom" /\ izoom' = ZoomRange(args)[1]
    /\ UNCHANGED <<held, input, mask, args, scheme, dirs, files, i, j, path_okay,
                   ind, visited, mkdirs>>

\* Lines 441-479: defaults, removal of an existing path, the DEM set-up.
Begin ==
    /\ pc = "start"
    /\ UNCHANGED <<maxVars, windVars, tsVars, gridVars>>
    /\ dirs' = {}
    /\ files' = <<>>
    /\ IF args.z_range /= None /\ args.dem_names = None
       THEN pc' = "raised" /\ izoom' = izoom
       ELSE pc' = "zoom" /\ izoom' = ZoomRange(args)[1]
    /\ UNCHANGED <<held, input, mask, args, scheme, i, j, path_okay, ind, visited, mkdirs>>

\* Line 479-493: the head of the loop over zoom levels.
ZoomLoop ==
    /\ pc = "zoom"
    /\ UNCHANGED <<maxVars, windVars, tsVars, gridVars>>
    /\ IF izoom > ZoomRange(args)[2]
       THEN pc' = "done" /\ i' = i
       ELSE pc' = "column" /\ i' = Ix0(input, izoom)
    /\ UNCHANGED <<held, input, mask, args, scheme, dirs, files, izoom, j, path_okay,
                   ind, visited, mkdirs>>

\* ColumnLoop with the column's directory made at the head of the loop.
ColumnLoopMkdir ==
    /\ pc = "column"
    /\ UNCHANGED <<maxVars, windVars, tsVars, gridVars>>
    /\ IF i > Ix1(input, izoom)
       THEN /\ pc' = "zoom"
            /\ izoom' = izoom + 1
            /\ UNCHANGED <<j, path_okay, dirs>>
       ELSE /\ pc' = "tile"
            /\ path_okay' = TRUE
            /\ dirs' = dirs \cup PathAndParents(izoom, i)
            /\ j' = Iy0(input, izoom)
            /\ izoom' = izoom
    /\ UNCHANGED <<held, input, mask, args, scheme, files, i, ind, visited, mkdirs>>

\* Lines 493-498: the head of the loop over tile columns.
ColumnLoop ==
    /\ pc = "column"
    /\ UNCHANGED <<maxVars, windVars, tsVars, gridVars>>
    /\ IF i > Ix1(input, izoom)
       THEN /\ pc' = "zoom"
            /\ izoom' = izoom + 1
            /\ UNCHANGED <<j, path_okay>>
       ELSE /\ pc' = "tile"
            /\ path_okay' = FALSE
            /\ j' = Iy0(input, izoom)
            /\ izoom' = izoom
    /\ UNCHANGED <<held, input, mask, args, scheme, dirs, files, i, ind, visited, mkdirs>>

\* Lines 498-549: the head of the loop over tile rows, and the tile's array.
ComputeTile ==
    /\ pc = "tile"
    /\ UNCHANGED <<maxVars, windVars, tsVars, gridVars>>
    /\ IF j > Iy1(input, izoom)
       THEN /\ pc' = "column"
            /\ i' = i + 1
            /\ UNCHANGED <<ind, visited>>
       ELSE /\ pc' = "filtered"
            /\ ind' = TileInd(input, mask, args, i, j, izoom)
            /\ visited' = visited \cup {<<izoom, i, j>>}
            /\ i' = i
    /\ UNCHANGED <<held, input, mask, args, scheme, dirs, files, izoom, j, path_okay, mkdirs>>

\* Line 551, when no pixel is valid: nothing is written.
SkipTile ==
    /\ pc = "filtered"
    /\ UNCHANGED <<maxVars, windVars, tsVars, gridVars>>
    /\ ~AnyValid(ind)
    /\ pc' = "tile"
    /\ j' = j + 1
    /\ UNCHANGED <<held, input, mask, args, scheme, dirs, files, izoom, i, path_okay,
                   ind, visited, mkdirs>>

\* Lines 551-555: the directory of the column is made on its first tile.
CheckPath ==
    /\ pc = "filtered"
    /\ UNCHANGED <<maxVars, windVars, tsVars, gridVars>>
    /\ AnyValid(ind)
    /\ IF ~path_okay /\ <<izoom, i>> \notin dirs
       THEN /\ dirs' = dirs \cup PathAndParents(izoom, i)
            /\ mkdirs' = Append(mkdirs, <<izoom, i>>)
            /\ path_okay' = TRUE
       ELSE UNCHANGED <<dirs, mkdirs, path_okay>>
    /\ pc' = "write"
    /\ UNCHANGED <<held, input, mask, args, scheme, files, izoom, i, j, ind, visited>>

\* Lines 556-559: open(file_name, "wb"), write, close.
WriteTile ==
    /\ pc = "write"
    /\ UNCHANGED <<maxVars, windVars, tsVars, gridVars>>
    /\ IF <<izoom, i>> \in dirs
       THEN /\ files' = [k \in DOMAIN files \cup {<<izoom, i, j>>} |->
                            IF k = <<izoom, i, j>> THEN ind ELSE files[k]]
            /\ pc' = "tile"
            /\ j' = j + 1
       ELSE /\ pc' = "raised"
            /\ UNCHANGED <<files, j>>
    /\ UNCHANGED <<held, input, mask, args, scheme, dirs, izoom, i, path_okay, ind,
                   visited, mkdirs>>

\* make_index_tiles is called again, with the same path and arguments, on
\* what the call before left.
Rerun ==
    /\ pc = "done"
    /\ UNCHANGED <<maxVars, windVars, tsVars, gridVars>>
    /\ pc' = "start"
    /\ held' = files
    /\ izoom' = 0 /\ i' = 0 /\ j' = 0 /\ path_okay' = FALSE
    /\ ind' = <<>>
    /\ visited' = {}
    /\ mkdirs' = <<>>
    /\ UNCHANGED <<input, mask, args, scheme, dirs, files>>

NextTiles ==
    \/ Begin
    \/ Rerun
    \/ ZoomLoop
    \/ ColumnLoop
    \/ ComputeTile
    \/ SkipTile
    \/ CheckPath
    \/ WriteTile

SpecTiles == InitTiles /\ [][NextTiles]_vars

-----------------------------------------------------------------------------
(* Properties of make_index_tiles.                                         *)

\* Tiles whose loop body has run to its end.
Processed ==
    visited \ (IF pc \in {"filtered", "write"} THEN {<<izoom, i, j>>} ELSE {})

\* The sample point (x, y) lies in cell (ii, jj) of the grid: geometry only.
InCell(v, x, y, ii, jj) ==
    /\ ii * v.dx <= Xg(v, x, y) /\ Xg(v, x, y) < (ii + 1) * v.dx
    /\ jj * v.dy <= Yg(v, x, y) /\ Yg(v, x, y) < (jj + 1) * v.dy

ElevationOk(x, y) ==
    \/ args.z_range = None
    \/ (args.z_range[1] <= Elevation(x, y) /\ Elevation(x, y) <= args.z_range[2])

\* Pixel p of tile k maps to the active cell (ii, jj).
MapsTo(k, p, ii, jj) ==
    /\ InCell(input, Xm(p, k[2], k[1]), Ym(p, k[3], k[1]), ii, jj)
    /\ mask[<<jj, ii>>] >= 1
    /\ ElevationOk(Xm(p, k[2], k[1]), Ym(p, k[3], k[1]))

HasValidPixel(k) ==
    \E p \in Pixels, ii \in 0 .. input.mmax - 1, jj \in 0 .. input.nmax - 1 :
        MapsTo(k, p, ii, jj)

\* C1: a tile's file <zoom>/<i>/<j>.dat is written if and only if, after the
\* bounds, elevation and mask filters, one of its pixels holds a valid index;
\* a tile whose pixels are all -999 produces no file, and no tile raises.
C1_FileIffValidPixel ==
    /\ \A k \in Processed : (k \in DOMAIN files) <=> HasValidPixel(k)
    /\ pc /= "start" => DOMAIN files \subseteq Processed
    /\ pc = "raised" => visited = {}

\* C1 witness: one tile was written and another, all -999, was not.
C1_Witness ==
    \E k1, k2 \in Processed :
        /\ k1 \in DOMAIN files
        /\ k2 \notin DOMAIN files
        /\ ~HasValidPixel(k2)

\* A stored value is the sentinel or the flat index of the active cell the
\* pixel's sample point lies in.
ValueOk(k, p, val) ==
    IF \E ii \in 0 .. input.mmax - 1, jj \in 0 .. input.nmax - 1 : MapsTo(k, p, ii, jj)
    THEN \E ii \in 0 .. input.mmax - 1, jj \in 0 .. input.nmax - 1 :
            MapsTo(k, p, ii, jj) /\ val = ii * input.nmax + jj
    ELSE val = NoData

\* C2: every value of a written tile array is -999 or a flat index
\* iind*nmax + jind with 0 <= iind < mmax, 0 <= jind < nmax and
\* mask[jind, iind] >= 1; a sample on the outer edge (iind = mmax or
\* jind = nmax), with a negative index or in a cell of mask 0 is -999.
C2_StoredValuesValid ==
    /\ pc /= "start" =>
         \A k \in DOMAIN files : \A p \in Pixels : ValueOk(k, p, files[k][p])
    /\ pc = "write" => \A p \in Pixels : ValueOk(<<izoom, i, j>>, p, ind[p])

\* C2 witness: a written tile holds a valid index, a sample on the outer edge
\* iind = mmax, and a sample in a cell of mask 0, both stored as -999.
C2_Witness ==
    /\ pc /= "start"
    /\ \E k \in DOMAIN files :
         /\ \E p \in Pixels : files[k][p] >= 0
         /\ \E p \in Pixels :
              /\ Iind(input, Xm(p, k[2], k[1]), Ym(p, k[3], k[1])) = input.mmax
              /\ Jind(input, Xm(p, k[2], k[1]), Ym(p, k[3], k[1])) \in 0 .. input.nmax - 1
              /\ files[k][p] = NoData
         /\ \E p \in Pixels :
              \E ii \in 0 .. input.mmax - 1, jj \in 0 .. input.nmax - 1 :
                 /\ InCell(input, Xm(p, k[2], k[1]), Ym(p, k[3], k[1]), ii, jj)
                 /\ mask[<<jj, ii>>] = 0
                 /\ files[k][p] = NoData

\* Tile (ti, tj) of zoom z, rows numbered from the north (the slippy-map
\* scheme), overlaps the model's bounding box.
CoversXYZ(z, ti, tj) ==
    /\ ti * TileSize(z) < XRange(input)[2]
    /\ XRange(input)[1] < (ti + 1) * TileSize(z)
    /\ World - (tj + 1) * TileSize(z) < YRange(input)[2]
    /\ YRange(input)[1] < World - tj * TileSize(z)

\* The same with rows numbered from the south.
CoversTMS(z, ti, tj) ==
    /\ ti * TileSize(z) < XRange(input)[2]
    /\ XRange(input)[1] < (ti + 1) * TileSize(z)
    /\ tj * TileSize(z) < YRange(input)[2]
    /\ YRange(input)[1] < (tj + 1) * TileSize(z)

TilesCoveredFromSouth ==
    (pc = "done" /\ scheme = "tms") =>
        \A z \in ZoomRange(args)[1] .. ZoomRange(args)[2] :
            \A ti, tj \in 0 .. NTiles(z) - 1 :
                CoversTMS(z, ti, tj) => <<z, ti, tj>> \in visited

-----------------------------------------------------------------------------
(* The max-field readers: pure parts.                                      *)

\* Timestamps are integers (seconds) in 0 .. MaxTime.
MaxTime == 4
\* The largest number of output steps of a netCDF map file.
MaxSteps == 3

\* A float that may be not-a-number.
NaN == [nan |-> TRUE, v |-> 0]
Num(x) == [nan |-> FALSE, v |-> x]

\* pd.date_range(start, end, freq): start, start + freq, ... while <= end.
DateRange(start, end, freq) ==
    LET n == IF start > end THEN 0 ELSE (end - start) \div freq + 1
    IN  [k \in 1 .. n |-> start + (k - 1) * freq]

\* The value of active point pt at output step number k (from 1).
StepValue(o, pt, k) ==
    CASE o.profile[pt] = "rising" -> k
      [] o.profile[pt] = "falling" -> MaxTime + 2 - k
      [] o.profile[pt] = "nodata" -> NoData

\* a[start:stop] on an axis of length n: the offsets (from 0) it keeps.
SliceOffsets(n, start, stop) ==
    LET norm(x) == IF x < 0 THEN (IF x + n < 0 THEN 0 ELSE x + n)
                   ELSE (IF x > n THEN n ELSE x)
    IN  {k \in 0 .. n - 1 : norm(start) <= k /\ k < norm(stop)}

Raised(e) == [status |-> "raised", error |-> e, steps |-> {}, value |-> <<>>]
ReturnedNone == [status |-> "none", error |-> "", steps |-> {}, value |-> <<>>]
Returned(st, val) == [status |-> "ok", error |-> "", steps |-> st, value |-> val]

\* Lines 242-248 and 313-319: the loop over the netCDF file's output times.
\* it0 starts at -1; it1 is unbound (<<>>) until assigned.
RECURSIVE NcLoop(_, _, _, _, _)
NcLoop(times, tr, it, it0, it1) ==
    IF it >= Len(times) THEN <<it0, it1>>
    ELSE NcLoop(times, tr, it + 1,
                IF times[it + 1] >= tr[1] /\ it0 < 0 THEN it ELSE it0,
                IF times[it + 1] <= tr[2] THEN <<it>> ELSE it1)

\* Line 250 and 321: values[it0:it1, :, :]
NcSlice(n, it0, it1) == SliceOffsets(n, it0, it1)

\* The netCDF map file's cells: the grid's (n, m), numbered as the points.
NcPoints(o) == 1 .. (o.nmax * o.mmax)

\* Lines 235-253 and 306-322: the reduction of a netCDF map file.
NcRead(o, time_range) ==
    LET times == o.nctimes
        tr == IF time_range = None
              THEN <<times[1], times[Len(times)]>>
              ELSE time_range
        its == NcLoop(times, tr, 0, -1, <<>>)
    IN  IF its[2] = <<>> THEN Raised("UnboundLocalError")
        ELSE LET keep == NcSlice(Len(times), its[1], its[2][1])
             IN  IF keep = {} THEN Raised("ValueError")
                 ELSE Returned({k + 1 : k \in keep},
                               [pt \in NcPoints(o) |->
                                   SetMax({StepValue(o, pt, k + 1) : k \in keep})])

\* Lines 267-272: the output times of the binary dump.
DatTimes(o) == DateRange(o.tstart + (o.t0out + o.dtmaxout), o.tstop, o.dtmaxout)

\* Lines 277-281: the loop over the binary dump's output times; it0 and it1
\* are unbound (<<>>) until assigned.
RECURSIVE DatLoop(_, _, _, _, _)
DatLoop(times, tr, it, it0, it1) ==
    IF it >= Len(times) THEN <<it0, it1>>
    ELSE DatLoop(times, tr, it + 1,
                 IF times[it + 1] <= tr[1] THEN <<it>> ELSE it0,
                 IF times[it + 1] <= tr[2] THEN <<it>> ELSE it1)

\* Line 294: [it0:it1+1, 1:-1]
DatSlice(n, it0, it1) == SliceOffsets(n, it0, it1 + 1)

\* The index file: the (1-based) flat positions of the active points in the
\* (mmax+2) x (nmax+2) array; here every interior cell is active.
DataInd(o) ==
    [pt \in 1 .. (o.nmax * o.mmax) |->
        LET m == (pt - 1) \div o.nmax + 1
            n == ((pt - 1) % o.nmax) + 1
        IN  m * (o.nmax + 2) + n + 1]

\* Lines 296-300: scatter on the full grid, -999 to NaN, reshape, transpose,
\* and the halo trimmed: the cell [n, m] of the result, n and m from 0.
Scatter(o, reduced) ==
    LET flat == [q \in 0 .. (o.nmax + 2) * (o.mmax + 2) - 1 |->
                    IF \E pt \in DOMAIN reduced : DataInd(o)[pt] - 1 = q
                    THEN LET pt == CHOOSE pt \in DOMAIN reduced : DataInd(o)[pt] - 1 = q
                         IN  IF reduced[pt] = NoData THEN NaN ELSE Num(reduced[pt])
                    ELSE NaN]
    IN  [c \in (0 .. o.nmax - 1) \X (0 .. o.mmax - 1) |->
            flat[(c[2] + 1) * (o.nmax + 2) + (c[1] + 1)]]

\* Lines 265-300: the reduction of the binary dump.
DatRead(o, time_range) ==
    LET times == DatTimes(o)
        tr == IF time_range = None
              THEN <<o.tstart + (o.t0out + o.dtmaxout), o.tstop>>
              ELSE time_range
        its == DatLoop(times, tr, 0, <<>>, <<>>)
    IN  IF its[1] = <<>> \/ its[2] = <<>> THEN Raised("UnboundLocalError")
        ELSE LET keep == DatSlice(Len(times), its[1][1], its[2][1])
             IN  IF keep = {} THEN Raised("ValueError")
                 ELSE Returned({k + 1 : k \in keep},
                               Scatter(o, [pt \in 1 .. (o.nmax * o.mmax) |->
                                   SetMax({StepValue(o, pt, k + 1) : k \in keep})]))

\* xr.open_dataset(file) followed by the reduction.
OpenDatasetAndReduce(o, file, time_range) ==
    IF file.kind = "netcdf" THEN NcRead(o, time_range) ELSE Raised("ValueError")

\* A reader that takes every file that is not a binary dump for a netCDF file.
Hm0maxBranchNoElse(ext) ==
    IF ext = ".dat" THEN "dat" ELSE "nc"

\* Lines 263, 302, 324: the branch read_hm0max takes on the extension.
Hm0maxBranch(ext) ==
    IF ext = ".dat" THEN "dat" ELSE IF ext = ".nc" THEN "nc" ELSE "none"

-----------------------------------------------------------------------------
(* The max-field readers: inputs and state machine.                        *)

MapNc == [name |-> "hurrywave_map.nc", ext |-> ".nc", kind |-> "netcdf"]
Hm0maxDat == [name |-> "hm0max.dat", ext |-> ".dat", kind |-> "binary"]
Hm0maxTxt == [name |-> "hm0max.txt", ext |-> ".txt", kind |-> "text"]
IndexFile == [name |-> "hurrywave.ind", ext |-> ".ind", kind |-> "binary"]
NoFile == [name |-> "", ext |-> "", kind |-> ""]

FileArgs == {NoFile, MapNc, Hm0maxDat, Hm0maxTxt}

IncreasingTimes ==
    {s \in UNION {[1 .. n -> 1 .. MaxTime] : n \in 1 .. MaxSteps} :
        \A k \in 1 .. Len(s) - 1 : s[k] < s[k + 1]}

Outputs ==
    {[tstart |-> 0, t0out |-> t0, dtmaxout |-> dt, tstop |-> MaxTime,
      nmax |-> 1, mmax |-> 2, nctimes |-> ts, profile |-> pr] :
        t0 \in {0, 1}, dt \in {1, 2}, ts \in IncreasingTimes,
        pr \in {<<"rising", "falling">>, <<"falling", "nodata">>}}

TimeRanges ==
    {None} \cup {<<a, b>> : a \in 0 .. MaxTime + 1, b \in 0 .. MaxTime + 1}

InitMax ==
    /\ IdleTiles /\ IdleWind /\ IdleTs /\ IdleGrid
    /\ out \in Outputs
    /\ maxcall = Idle
    /\ maxret = Idle
    /\ opened = {}

\* Lines 228-253.
ReadMapOutputMax ==
    \E time_range \in TimeRanges, map_file \in FileArgs :
        LET file == IF map_file = NoFile THEN MapNc ELSE map_file
        IN  /\ maxcall = Idle
            /\ time_range /= None => time_range[1] <= time_range[2]
            /\ maxcall' = [fn |-> "read_map_output_max", time_range |-> time_range,
                           file |-> file, path |-> IF file.kind = "netcdf" THEN "nc" ELSE "error"]
            /\ opened' = {file}
            /\ maxret' = OpenDatasetAndReduce(out, file, time_range)
            /\ UNCHANGED <<out, tileVars, windVars, tsVars, gridVars>>

\* Lines 256-329.
ReadHm0max ==
    \E time_range \in TimeRanges, hm0max_file \in FileArgs :
        LET file == IF hm0max_file = NoFile THEN Hm0maxDat ELSE hm0max_file
            branch == Hm0maxBranch(file.ext)
        IN  /\ maxcall = Idle
            /\ time_range /= None => time_range[1] <= time_range[2]
            /\ maxcall' = [fn |-> "read_hm0max", time_range |-> time_range,
                           file |-> file, path |-> branch]
            /\ CASE branch = "dat" ->
                      /\ opened' = {IndexFile, file}
                      /\ maxret' = DatRead(out, time_range)
                 [] branch = "nc" ->
                      /\ opened' = {file}
                      /\ maxret' = OpenDatasetAndReduce(out, file, time_range)
                 [] OTHER ->
                      /\ opened' = {}
                      /\ maxret' = ReturnedNone
            /\ UNCHANGED <<out, tileVars, windVars, tsVars, gridVars>>

\* The caller takes the result; the next call starts afresh.
ReturnMax ==
    /\ maxcall /= Idle
    /\ maxcall' = Idle
    /\ maxret' = Idle
    /\ opened' = {}
    /\ UNCHANGED <<out, tileVars, windVars, tsVars, gridVars>>

NextMax ==
    \/ ReadMapOutputMax
    \/ ReadHm0max
    \/ ReturnMax

SpecMax == InitMax /\ [][NextMax]_vars

-----------------------------------------------------------------------------
(* Properties of the max-field readers.                                    *)

\* The output steps (numbered from 1) whose timestamp lies in [tr[1], tr[2]].
InWindow(times, tr) ==
    {k \in 1 .. Len(times) : tr[1] <= times[k] /\ times[k] <= tr[2]}

\* The last output step before tr[1], if there is one.
EnclosingBefore(times, tr) ==
    LET before == {k \in 1 .. Len(times) : times[k] < tr[1]}
    IN  IF before = {} THEN {} ELSE {SetMax(before)}

\* C4: on the netCDF path, given a time range, the maximum is taken over
\* exactly the output steps t with t_start <= t <= t_end, the last one
\* included.
C4_NcWindowInclusive ==
    (/\ maxcall /= Idle
     /\ maxcall.path = "nc"
     /\ maxcall.time_range /= None
     /\ InWindow(out.nctimes, maxcall.time_range) /= {})
    => /\ maxret.status = "ok"
       /\ maxret.steps = InWindow(out.nctimes, maxcall.time_range)

\* C5: on the binary-dump path, for t_start <= t_end, it0 and it1 are both
\* defined and the slice holds every output step in [t_start, t_end],
\* extended only by the nearest enclosing step before t_start; also when
\* t_start or t_end is earlier than the first output step.
C5_DatWindowDefined ==
    (/\ maxcall /= Idle
     /\ maxcall.path = "dat"
     /\ maxcall.time_range /= None)
    => /\ maxret.error /= "UnboundLocalError"
       /\ InWindow(DatTimes(out), maxcall.time_range) \subseteq maxret.steps
       /\ maxret.steps \subseteq
             InWindow(DatTimes(out), maxcall.time_range)
             \cup EnclosingBefore(DatTimes(out), maxcall.time_range)

\* What C5 says does hold when t_start is not earlier than the first step.
DatWindowFromFirstStep ==
    (/\ maxcall /= Idle
     /\ maxcall.path = "dat"
     /\ maxcall.time_range /= None
     /\ DatTimes(out) /= <<>>
     /\ maxcall.time_range[1] >= DatTimes(out)[1])
    => /\ maxret.status = "ok"
       /\ InWindow(DatTimes(out), maxcall.time_range) \subseteq maxret.steps
       /\ maxret.steps \subseteq
             InWindow(DatTimes(out), maxcall.time_range)
             \cup EnclosingBefore(DatTimes(out), maxcall.time_range)

\* C6: with time_range None the reader selects the full span of output steps
\* and returns the same array as with the explicit range [first, last], for
\* every dataset with at least one output step.
C6_NoneIsFullSpan ==
    (/\ maxcall /= Idle
     /\ maxcall.path \in {"nc", "dat"}
     /\ maxcall.time_range = None
     /\ (maxcall.path = "dat" => DatTimes(out) /= <<>>))
    => LET times == IF maxcall.path = "nc" THEN out.nctimes ELSE DatTimes(out)
           range == <<times[1], times[Len(times)]>>
           explicit == IF maxcall.path = "nc"
                       THEN NcRead(out, range) ELSE DatRead(out, range)
       IN  /\ maxret.status = "ok"
           /\ maxret.steps = 1 .. Len(times)
           /\ explicit.status = "ok"
           /\ explicit.value = maxret.value

\* C9, as amended: read_hm0max given a file whose extension is neither .dat
\* nor .nc returns None without raising and without opening any file.
C9_Hm0maxUnknownExtension ==
    (/\ maxcall /= Idle
     /\ maxcall.fn = "read_hm0max"
     /\ maxcall.file.ext \notin {".dat", ".nc"})
    => maxret = ReturnedNone /\ opened = {}

\* C9 witness: read_hm0max was called on a .txt file and returned None.
C9_Witness ==
    /\ maxcall /= Idle
    /\ maxcall.fn = "read_hm0max"
    /\ maxcall.file.ext = ".txt"
    /\ maxret.status = "none"

\* C9, as claimed: the same of every max-field read entry point,
\* read_map_output_max included.
C9_EveryReaderUnknownExtension ==
    (/\ maxcall /= Idle
     /\ maxcall.file.ext \notin {".dat", ".nc"})
    => maxret = ReturnedNone /\ opened = {}

-----------------------------------------------------------------------------
(* setup_wind_uniform_forcing.                                             *)

\* An optional number is None or <<n>>.  The timeseries argument is None,
\* <<"str", path>> for a string, or <<"DataFrame">> for anything else.

ValueErrorNoInput == "ValueError: Either timeseries or magnitude and direction must be provided"
ValueErrorNotPath == "ValueError: Timeseries should be path to csv file"
TypeErrorIsInstance == "TypeError: isinstance expected 2 arguments, got 1"

\* Line 583: isinstance(str), a call of isinstance with one argument.
IsInstanceStr(timeseries) == TypeErrorIsInstance

\* A branch test that needs only one of magnitude and direction.
WindBranchEither(timeseries, magnitude, direction) ==
    IF timeseries /= None
    THEN IsInstanceStr(timeseries)
    ELSE IF magnitude /= None \/ direction /= None
         THEN "constant"
         ELSE ValueErrorNoInput

\* Lines 582-600: the branch taken, or the error raised in taking it.
WindBranch(timeseries, magnitude, direction) ==
    IF timeseries /= None
    THEN IsInstanceStr(timeseries)
    ELSE IF magnitude /= None /\ direction /= None
         THEN "constant"
         ELSE ValueErrorNoInput

\* Lines 592-609: two rows, at tstart and tstop, as seconds since tref.
ConstantWind(env, magnitude, direction) ==
    LET index == <<env.tstart, env.tstop>>
    IN  [k \in 1 .. 2 |-> <<index[k] - env.tref, magnitude, direction>>]

OptionalNumbers == {None, <<0>>, <<5>>}
TimeseriesArgs == {None, <<"str", "wind.csv">>, <<"DataFrame">>}

WindEnvs ==
    {[tstart |-> a, tstop |-> b, tref |-> r, path |-> "run"] :
        a \in {0, 10}, b \in {10, 20}, r \in {0, 10}}

InitWind ==
    /\ IdleTiles /\ IdleMax /\ IdleTs /\ IdleGrid
    /\ wenv \in WindEnvs
    /\ wndfile = None
    /\ windcall = Idle
    /\ windret = Idle

SetupWindUniformForcing ==
    \E timeseries \in TimeseriesArgs, magnitude \in OptionalNumbers,
       direction \in OptionalNumbers :
        LET branch == WindBranch(timeseries, magnitude, direction)
        IN  /\ windcall = Idle
            /\ windcall' = [timeseries |-> timeseries, magnitude |-> magnitude,
                            direction |-> direction]
            /\ IF branch = "constant"
               THEN /\ wndfile' = ConstantWind(wenv, magnitude, direction)
                    /\ windret' = [status |-> "ok", error |-> ""]
               ELSE /\ wndfile' = wndfile
                    /\ windret' = [status |-> "raised", error |-> branch]
            /\ UNCHANGED <<wenv, tileVars, maxVars, tsVars, gridVars>>

\* The caller takes the result; the file stays.
ReturnWind ==
    /\ windcall /= Idle
    /\ windcall' = Idle
    /\ windret' = Idle
    /\ UNCHANGED <<wenv, wndfile, tileVars, maxVars, tsVars, gridVars>>

NextWind ==
    \/ SetupWindUniformForcing
    \/ ReturnWind

SpecWind == InitWind /\ [][NextWind]_vars

\* C7: called with timeseries None and magnitude or direction missing, the
\* function fails at once with the descriptive error; hurrywave.wnd is
\* neither created nor modified and no attribute of the model changes.
C7_MissingInputFailsCleanly ==
    [][(/\ windcall = Idle
        /\ windcall' /= Idle
        /\ windcall'.timeseries = None
        /\ (windcall'.magnitude = None \/ windcall'.direction = None))
       => /\ windret' = [status |-> "raised", error |-> ValueErrorNoInput]
          /\ wndfile' = wndfile
          /\ wenv' = wenv]_vars

\* C7 witness: a call with a magnitude and no direction has failed while a
\* wind file of an earlier call exists.
C7_Witness ==
    /\ windcall /= Idle
    /\ windcall.timeseries = None
    /\ windcall.magnitude /= None
    /\ windcall.direction = None
    /\ windret.status = "raised"
    /\ wndfile /= None

\* C8: called with timeseries a string path of a csv file, the function
\* reads it and writes hurrywave.wnd; 'Timeseries should be path to csv
\* file' is raised only when timeseries is not a string.
C8_CsvPathAccepted ==
    /\ (windcall /= Idle /\ windcall.timeseries /= None
        /\ windcall.timeseries[1] = "str")
       => windret.status = "ok" /\ wndfile /= None
    /\ (windcall /= Idle /\ windret.error = ValueErrorNotPath)
       => (windcall.timeseries /= None /\ windcall.timeseries[1] /= "str")

-----------------------------------------------------------------------------
(* read_timeseries_output.                                                 *)

\* The largest number of stations in the history file.
MaxStations == 2
\* The output times of the history file, numbered.
HisTimes == {1, 2}

\* A name is a sequence of characters.  bytes.strip()
RECURSIVE StripLeft(_)
StripLeft(b) == IF b /= <<>> /\ Head(b) = " " THEN StripLeft(Tail(b)) ELSE b
RECURSIVE StripRight(_)
StripRight(b) ==
    IF b /= <<>> /\ b[Len(b)] = " " THEN StripRight(SubSeq(b, 1, Len(b) - 1)) ELSE b
Strip(b) == StripLeft(StripRight(b))

\* str(b) of a bytes object b: b'...'
StrOfBytes(b) == <<"b", "'">> \o b \o <<"'">>

\* s[2:-1]
Slice2ToLast(s) == SubSeq(s, 3, Len(s) - 1)

\* Line 179: st = str(st.strip())[2:-1]
StationName(raw) == Slice2ToLast(StrOfBytes(Strip(raw)))

\* Lines 176-180.
AllStations(h) == [k \in 1 .. Len(h.stations) |-> StationName(h.stations[k])]

\* A replacement that leaves the missing values in.
KeepMissing(col) == col

\* Line 198: data[np.isnan(data)] = -999.0
FillMissing(col) ==
    [t \in DOMAIN col |-> IF col[t].nan THEN Num(NoData) ELSE col[t]]

\* Lines 195-200: the first station of the file with the name, or 0.
FirstStation(all, station) ==
    IF \E k \in 1 .. Len(all) : all[k] = station
    THEN SetMin({k \in 1 .. Len(all) : all[k] = station})
    ELSE 0

\* Line 199: df[st] = data sets every column labelled st.
SetColumns(names, df, st, data) ==
    [c \in DOMAIN df |-> IF names[c] = st THEN data ELSE df[c]]

\* Lines 194-200: the loop over name_list, from its k-th name on.
RECURSIVE TsLoop(_, _, _, _)
TsLoop(h, names, k, df) ==
    IF k > Len(names) THEN df
    ELSE LET ist == FirstStation(AllStations(h), names[k])
         IN  TsLoop(h, names, k + 1,
                    IF ist = 0 THEN df
                    ELSE SetColumns(names, df, names[k], FillMissing(h.data[ist])))

\* Lines 185-204: the table returned.
ReadTimeseries(h, name_list) ==
    LET names == IF name_list = <<>> THEN AllStations(h) ELSE name_list
        empty == [c \in 1 .. Len(names) |-> [t \in HisTimes |-> NaN]]
    IN  [columns |-> names, cells |-> TsLoop(h, names, 1, empty)]

RawNames == {<<"A">>, <<"A", " ">>, <<"B", " ", " ">>}
Columns == [HisTimes -> {NaN, Num(1)}]
HisFiles ==
    UNION {{[stations |-> st, data |-> d] :
               st \in [1 .. n -> RawNames], d \in [1 .. n -> Columns]} :
           n \in 1 .. MaxStations}

RequestedNames == {<<"A">>, <<"B">>, <<"C">>}
NameLists ==
    {<<>>} \cup UNION {[1 .. n -> RequestedNames] : n \in 1 .. MaxStations}

InitTs ==
    /\ IdleTiles /\ IdleMax /\ IdleWind /\ IdleGrid
    /\ his \in HisFiles
    /\ tscall = Idle
    /\ tsret = Idle

ReadTimeseriesOutput ==
    \E name_list \in NameLists :
        /\ tscall = Idle
        /\ tscall' = [name_list |-> name_list]
        /\ tsret' = ReadTimeseries(his, name_list)
        /\ UNCHANGED <<his, tileVars, maxVars, windVars, gridVars>>

ReturnTs ==
    /\ tscall /= Idle
    /\ tscall' = Idle
    /\ tsret' = Idle
    /\ UNCHANGED <<his, tileVars, maxVars, windVars, gridVars>>

NextTs ==
    \/ ReadTimeseriesOutput
    \/ ReturnTs

SpecTs == InitTs /\ [][NextTs]_vars

\* The names a call asks for: its name_list, or the file's stations.
Requested == IF tscall.name_list = <<>> THEN AllStations(his) ELSE tscall.name_list

ColumnsAsRequested ==
    /\ tsret.columns = Requested
    /\ DOMAIN tsret.cells = 1 .. Len(Requested)

\* C10, as amended: the columns are the requested names in the order
\* requested (all stations in file order when name_list is None or empty);
\* the column of a name that occurs in the file holds no missing value, each
\* one being replaced by -999.0; the column of a requested name that does
\* not occur in the file is left missing throughout.
C10_ColumnsAndFill ==
    tscall /= Idle =>
        /\ ColumnsAsRequested
        /\ \A c \in 1 .. Len(Requested) :
             LET ist == FirstStation(AllStations(his), Requested[c])
             IN  \A t \in HisTimes :
                    IF ist = 0 THEN tsret.cells[c][t] = NaN
                    ELSE tsret.cells[c][t] =
                            (IF his.data[ist][t] = NaN THEN Num(NoData)
                             ELSE his.data[ist][t])

\* C10 witness: a missing value of a station of the file came back as
\* -999.0 beside the column of a name the file does not hold.
C10_Witness ==
    /\ tscall /= Idle
    /\ \E c \in 1 .. Len(Requested), t \in HisTimes :
         /\ FirstStation(AllStations(his), Requested[c]) /= 0
         /\ his.data[FirstStation(AllStations(his), Requested[c])][t] = NaN
         /\ tsret.cells[c][t] = Num(NoData)
    /\ \E c \in 1 .. Len(Requested) :
         FirstStation(AllStations(his), Requested[c]) = 0

\* C10, as claimed: no cell of the table holds a missing value, the cells
\* of a requested name that does not occur in the file included.
C10_NoMissingCell ==
    tscall /= Idle =>
        /\ ColumnsAsRequested
        /\ \A c \in 1 .. Len(Requested) : \A t \in HisTimes :
              tsret.cells[c][t] /= NaN

-----------------------------------------------------------------------------
(* grid_coordinates (lines 378-401).                                       *)
(* Cell sizes are even, so that half a cell is a whole number of units.    *)

\* np.linspace(start, stop, num): num values, both ends included.
LinspaceNoEndpoint(start, stop, num) ==
    [k \in 0..(num - 1) |-> start + k * ((stop - start) \div num)]
Linspace(start, stop, num) ==
    [k \in 0..(num - 1) |->
        IF num = 1 THEN start ELSE start + k * ((stop - start) \div (num - 1))]

Half(n) == n \div 2

\* np.meshgrid(xx, yy): two arrays indexed [jj, ii].
Meshgrid(xx, yy) ==
    [x |-> [c \in (DOMAIN yy) \X (DOMAIN xx) |-> xx[c[2]]],
     y |-> [c \in (DOMAIN yy) \X (DOMAIN xx) |-> yy[c[1]]]]

grid_coordinates(v, loc) ==
    LET cosrot == CosDeg(v.rotation)
        sinrot == SinDeg(v.rotation)
        xx == IF loc = "cor"
              THEN Linspace(0, v.mmax * v.dx, v.mmax + 1)
              ELSE Linspace(Half(v.dx), v.mmax * v.dx - Half(v.dx), v.mmax)
        yy == IF loc = "cor"
              THEN Linspace(0, v.nmax * v.dy, v.nmax + 1)
              ELSE Linspace(Half(v.dy), v.nmax * v.dy - Half(v.dy), v.nmax)
        g0 == Meshgrid(xx, yy)
    IN  [xg |-> [c \in DOMAIN g0.x |-> v.x0 + g0.x[c] * cosrot - g0.y[c] * sinrot],
         yg |-> [c \in DOMAIN g0.x |-> v.y0 + g0.x[c] * sinrot + g0.y[c] * cosrot]]

\* The configurations grid_coordinates is called with; the first family is
\* the 5 x 5 grid of 10 x 10 cells at the origin.
GridInputs ==
    {[x0 |-> 0, y0 |-> 0, dx |-> 10, dy |-> 10, mmax |-> 5, nmax |-> 5,
      rotation |-> r] : r \in Rotations}
    \cup {[x0 |-> o[1], y0 |-> o[2], dx |-> c[1], dy |-> c[2],
           mmax |-> d[1], nmax |-> d[2], rotation |-> r] :
            o \in Origins, c \in {<<2, 2>>, <<4, 2>>}, d \in GridDims \cup {<<3, 2>>},
            r \in Rotations}

Locs == {"cor", "cen", "z"}

InitGrid ==
    /\ input \in GridInputs
    /\ mask = Idle /\ args = Idle /\ scheme = "idle"
    /\ dirs = {} /\ files = <<>> /\ pc = "idle"
    /\ izoom = 0 /\ i = 0 /\ j = 0 /\ path_okay = FALSE
    /\ ind = <<>> /\ visited = {} /\ mkdirs = <<>> /\ held = <<>>
    /\ IdleMax /\ IdleWind /\ IdleTs /\ IdleGrid

GridCoordinates ==
    /\ input # Idle
    /\ pc = "idle"
    /\ gridcall = Idle
    /\ \E loc \in Locs :
        /\ gridcall' = [loc |-> loc]
        /\ gridret' = grid_coordinates(input, loc)
    /\ UNCHANGED <<tileVars, maxVars, windVars, tsVars>>

ReturnGrid ==
    /\ gridcall # Idle
    /\ gridcall' = Idle
    /\ gridret' = Idle
    /\ UNCHANGED <<tileVars, maxVars, windVars, tsVars>>

NextGrid == GridCoordinates \/ ReturnGrid

SpecGrid == InitGrid /\ [][NextGrid]_vars

\* The node (jj, ii) in the grid's own frame: corners at whole cells,
\* centres half a cell further.
XLocal(v, loc, ii) == IF loc = "cor" THEN ii * v.dx ELSE ii * v.dx + Half(v.dx)
YLocal(v, loc, jj) == IF loc = "cor" THEN jj * v.dy ELSE jj * v.dy + Half(v.dy)

\* For a rotation of 0, 90, 180 or 270 degrees the frame's axes map onto the
\* world's axes: a translation by (x0, y0) and a signed scaling.
AxisAligned(v, xl, yl) ==
    CASE v.rotation = 0 -> <<v.x0 + xl, v.y0 + yl>>
      [] v.rotation = 90 -> <<v.x0 - yl, v.y0 + xl>>
      [] v.rotation = 180 -> <<v.x0 - xl, v.y0 - yl>>
      [] v.rotation = 270 -> <<v.x0 + yl, v.y0 - xl>>

GridExample ==
    [x0 |-> 0, y0 |-> 0, dx |-> 10, dy |-> 10, mmax |-> 5, nmax |-> 5, rotation |-> 0]

GridResultOk ==
    gridcall # Idle =>
        LET v == input
            loc == gridcall.loc
            nx == IF loc = "cor" THEN v.mmax + 1 ELSE v.mmax
            ny == IF loc = "cor" THEN v.nmax + 1 ELSE v.nmax
        IN  /\ DOMAIN gridret.xg = (0..(ny - 1)) \X (0..(nx - 1))
            /\ DOMAIN gridret.yg = (0..(ny - 1)) \X (0..(nx - 1))
            /\ \A jj \in 0..(ny - 1), ii \in 0..(nx - 1) :
                 <<gridret.xg[<<jj, ii>>], gridret.yg[<<jj, ii>>]>>
                    = AxisAligned(v, XLocal(v, loc, ii), YLocal(v, loc, jj))
            /\ (v = GridExample /\ loc = "cor") =>
                 /\ gridret.xg[<<0, 0>>] = 0 /\ gridret.yg[<<0, 0>>] = 0
                 /\ gridret.xg[<<5, 5>>] = 50 /\ gridret.yg[<<5, 5>>] = 50

\* C11: grid_coordinates changes nothing of the model's state, and returns
\* two arrays of shape (nmax+1, mmax+1) for corners and (nmax, mmax) for
\* centres, whose node (jj, ii) is the point (ii*dx, jj*dy), for centres
\* ((ii+0.5)*dx, (jj+0.5)*dy), rotated by rotation about the origin and
\* moved by (x0, y0); on the 5 x 5 example corner (0,0) is (0,0) and corner
\* (5,5) is (50,50).
C11_GridCoordinatesPure ==
    [][(gridcall = Idle /\ gridcall' # Idle) =>
            (UNCHANGED <<tileVars, maxVars, windVars, tsVars>> /\ GridResultOk')]_vars

C11_Witness ==
    /\ gridcall # Idle
    /\ gridcall.loc = "cor"
    /\ input = GridExample
    /\ gridret.xg[<<5, 5>>] = 50
    /\ gridret.yg[<<5, 5>>] = 50

-----------------------------------------------------------------------------
(* Cell centres through the index computation of make_index_tiles.         *)

\* The flat index make_index_tiles (lines 516-528) computes for the centre
\* of cell (ii, jj) that grid_coordinates returned.
CentreInd(v, ii, jj) ==
    LET x == gridret.xg[<<jj, ii>>]
        y == gridret.yg[<<jj, ii>>]
    IN  [iind |-> Iind(v, x, y),
         jind |-> Jind(v, x, y),
         ind |-> RangeInd(v, Iind(v, x, y), Jind(v, x, y))]

\* C12: the centre of every cell (ii, jj), 0 <= ii < mmax, 0 <= jj < nmax,
\* as grid_coordinates returns it, is mapped back by make_index_tiles'
\* translation, rotation by -rotation and floor division to iind = ii and
\* jind = jj, hence to the flat index ii*nmax + jj, which lies in
\* [0, mmax*nmax) and differs between different cells.
C12_CentreRoundTrip ==
    (gridcall # Idle /\ gridcall.loc # "cor") =>
        LET v == input
            Cells == (0..(v.mmax - 1)) \X (0..(v.nmax - 1))
        IN  /\ \A c \in Cells :
                 /\ CentreInd(v, c[1], c[2]).iind = c[1]
                 /\ CentreInd(v, c[1], c[2]).jind = c[2]
                 /\ CentreInd(v, c[1], c[2]).ind = c[1] * v.nmax + c[2]
                 /\ CentreInd(v, c[1], c[2]).ind >= 0
                 /\ CentreInd(v, c[1], c[2]).ind < v.mmax * v.nmax
            /\ \A c, d \in Cells :
                 CentreInd(v, c[1], c[2]).ind = CentreInd(v, d[1], d[2]).ind => c = d

C12_Witness ==
    /\ gridcall # Idle
    /\ gridcall.loc = "cen"
    /\ input.rotation = 90
    /\ input.mmax = 3 /\ input.nmax = 2
    /\ CentreInd(input, 2, 1).ind = 5

-----------------------------------------------------------------------------
(* make_index_tiles: what the output directory holds.                      *)

\* The tiles the loops of lines 479-498 go through.
LoopTiles(v, a) ==
    UNION {{<<z, ti, tj>> : ti \in Ix0(v, z)..Ix1(v, z), tj \in Iy0(v, z)..Iy1(v, z)} :
            z \in ZoomRange(a)[1]..ZoomRange(a)[2]}

\* The tile files a call writes, as a function of the configuration, the
\* mask and the arguments alone.
TileFiles(v, m, a) ==
    LET keys == {k \in LoopTiles(v, a) : AnyValid(TileInd(v, m, a, k[2], k[3], k[1]))}
    IN  IF (a.z_range /= None /\ a.dem_names = None) \/ keys = {}
        THEN <<>>
        ELSE [k \in keys |-> TileInd(v, m, a, k[2], k[3], k[1])]

\* C13: what path holds after make_index_tiles depends on the configuration,
\* the mask and the arguments only: path is emptied before a tile is written,
\* so every file found under it was written by this call and no file that
\* path held before is left unless this call wrote it anew; when the call has
\* ended the files are those TileFiles gives, whatever path held before, and
\* a second call on the first call's output leaves the same files with the
\* same content.
C13_OutputIndependentOfPath ==
    pc \notin {"start", "idle"} =>
        /\ \A k \in DOMAIN files : k \in visited
        /\ \A k \in DOMAIN held : k \in DOMAIN files => k \in visited
        /\ pc \in {"done", "raised"} => files = TileFiles(input, mask, args)
        /\ (pc = "done" /\ held = TileFiles(input, mask, args)) => files = held

\* A call that found the tiles of an earlier run of another configuration
\* under path has ended and has written tiles of its own.
C13_Witness ==
    /\ pc = "done"
    /\ OldKey \in DOMAIN held
    /\ OldKey \notin DOMAIN files
    /\ files /= <<>>

\* A second call on the output of the first has ended.
C13_SecondRun ==
    /\ pc = "done"
    /\ held /= <<>>
    /\ OldKey \notin DOMAIN held
    /\ files = held

-----------------------------------------------------------------------------
(* make_index_tiles: the directories of the tile columns.                  *)

\* C14: a step of make_index_tiles that opens a tile file for writing finds
\* the directory <path>/<zoom>/<i> of its column in place; a step that makes
\* a directory makes the one of the current column, which did not exist yet,
\* while it holds a tile of that column with a valid pixel; and no directory
\* is removed once the loops have started.  So a column's directory is made
\* at most once, only for a valid tile, and never for a column without one.
C14_DirectoryBeforeFile ==
    [][pc \notin {"start", "idle"} =>
        /\ dirs \subseteq dirs'
        /\ files' /= files =>
              /\ <<izoom, i>> \in dirs
              /\ DOMAIN files' = DOMAIN files \cup {<<izoom, i, j>>}
        /\ dirs' /= dirs =>
              /\ <<izoom, i>> \notin dirs
              /\ dirs' = dirs \cup PathAndParents(izoom, i)
              /\ ind = TileInd(input, mask, args, i, j, izoom)
              /\ AnyValid(ind)
        /\ mkdirs' /= mkdirs =>
              \/ /\ mkdirs' = Append(mkdirs, <<izoom, i>>)
                 /\ dirs' /= dirs
                 /\ \A a \in 1..Len(mkdirs) : mkdirs[a] /= <<izoom, i>>
              \/ pc = "done" /\ mkdirs' = <<>>]_vars

\* The second tile of a column is about to be written into the directory
\* made for the first, and a column gone through before has no directory.
C14_Witness ==
    /\ pc = "write"
    /\ \E k \in DOMAIN files : k[1] = izoom /\ k[2] = i /\ k[3] /= j
    /\ <<izoom, i>> \in dirs
    /\ \E k \in visited : <<k[1], k[2]>> \notin dirs /\ <<k[1], k[2]>> /= <<izoom, i>>

=============================================================================
